---- MODULE Spec2Model ----
(***************************************************************************)
(* MediTrend (src/App.tsx): the generation pipeline of the App component   *)
(* (search -> content synthesis -> illustration synthesis), the defensive  *)
(* normalisation of the backend's JSON, and the controller state held in   *)
(* the four useState slots of App.                                         *)
(*                                                                         *)
(* JavaScript runs the handlers on one thread: a handler runs to its next  *)
(* await without interruption, and the continuation after an await runs    *)
(* as one step when the awaited promise settles.  Each action below is one *)
(* such uninterrupted piece.  A promise that rejects before the callee     *)
(* reaches its own first await (getAiClient throwing) settles in the same   *)
(* turn, so no user event can fall between the call and the catch block.   *)
(*                                                                         *)
(* What the user can trigger is decided by the rendered controls: their    *)
(* disabled attributes and whether they are rendered at all.  CSS overlays *)
(* are styling and do not remove a control from keyboard activation, so    *)
(* they are not guards.                                                    *)
(***************************************************************************)
EXTENDS Integers, Sequences, FiniteSets, TLC

\* ------------------------------------------------------------------ bounds

\* Rows of a comparison table handed to the table image.
MaxRows == 50
\* Characters of a table cell, and the widths a character may measure.
MaxChars == 4
MaxCharWidth == 3
\* Handler invocations (search or generate) started in one behaviour.
MaxRuns == 3
\* Generate buttons the user may try, and Date.now() readings drawn for one
\* response; entries of an input array of the normaliser.
MaxItems == 2
\* Date.now() readings are drawn from 0..MaxTime.
MaxTime == 1

Times == 0..MaxTime

\* --------------------------------------------------------------- JSON values
\* A parsed JSON value (and a JS value built from one) is a tagged record.

Undefined == [t |-> "undefined"]
Null == [t |-> "null"]
Str(s) == [t |-> "str", v |-> s]
Num(n) == [t |-> "num", v |-> n]
Arr(s) == [t |-> "arr", v |-> s]
Obj(f) == [t |-> "obj", v |-> f]

EmptyFields == [k \in {} |-> Null]

\* Array.isArray(x)
IsArray(x) == x.t = "arr"

\* x && typeof x === 'object'  (arrays are excluded by the caller's test)
IsObjectLike(x) == x.t \in {"obj", "arr"}

\* JS truthiness of a value, as used by !x and x || d.
Truthy(x) ==
    CASE x.t = "undefined" -> FALSE
      [] x.t = "null" -> FALSE
      [] x.t = "str" -> x.v # ""
      [] x.t = "num" -> x.v # 0
      [] OTHER -> TRUE

\* x.k : property read; a missing property, or any property of a primitive,
\* reads as undefined.  (Reading a property of null/undefined throws: callers
\* test for that first.)
Get(x, k) == IF x.t = "obj" /\ k \in DOMAIN x.v THEN x.v[k] ELSE Undefined

\* x.k = val on an object.
Put(x, k, val) ==
    Obj([j \in (DOMAIN x.v) \cup {k} |-> IF j = k THEN val ELSE x.v[j]])

\* ------------------------------------------------------------- response text
\* response.text is a sequence of tokens: a code fence ("```json" or "```"),
\* white space, one JSON value, or text that is no JSON.

Fence == [k |-> "fence"]
Ws == [k |-> "ws"]
Junk == [k |-> "junk"]
Json(j) == [k |-> "json", j |-> j]

RECURSIVE DropAll(_, _)
DropAll(s, tok) ==
    IF s = <<>> THEN <<>>
    ELSE IF Head(s) = tok THEN DropAll(Tail(s), tok)
    ELSE <<Head(s)>> \o DropAll(Tail(s), tok)

\* text.replace(/```json|```/g, '').trim(): the fences are removed; the white
\* space that JSON.parse skips anyway is removed with them.
CleanText(text) == DropAll(DropAll(text, Fence), Ws)

\* JSON.parse succeeds on exactly one JSON value.
Parses(clean) == Len(clean) = 1 /\ clean[1].k = "json"
Parsed(clean) == clean[1].j

\* ------------------------------------------------------------ call outcomes

Return(v) == [ok |-> TRUE, val |-> v, msg |-> ""]
Throw(m) == [ok |-> FALSE, val |-> Null, msg |-> m]

ApiKeyMissingMsg == "API Key is missing. Please ensure process.env.API_KEY is available."
SyntaxErrorMsg == "Unexpected token"
TypeErrorMsg == "Cannot read properties"
NoContentMsg == "No content generated"

\* Messages a rejected backend call may carry (err.message), the empty one
\* included.
BackendMsgs == {"fetch failed", "API Key not valid", ""}

\* errorMessage.includes("API Key")
IncludesApiKey(m) == m \in {ApiKeyMissingMsg, "API Key not valid"}

\* A backend call settles by rejecting, or by resolving with a response.
Rejected(m) == [k |-> "rejected", msg |-> m, text |-> <<>>]
Resolved(text) == [k |-> "resolved", msg |-> "", text |-> text]

\* -------------------------------------------------------------- SearchStage

\* `res-${index}-${Date.now()}`: the three parts between the hyphens.  An
\* identifier the backend sent is a string of the same kind.
ResId(index, now) == [prefix |-> "res", index |-> index, now |-> now]

\* {...r}: the own properties of r; a primitive or null spreads to nothing.
Spread(r) == IF r.t = "obj" THEN r ELSE Obj(EmptyFields)

\* Variant of Unwrap that looks under data before items and results.
Unwrap_DataFirst(parsed) ==
    IF IsArray(parsed) THEN [found |-> TRUE, arr |-> parsed.v]
    ELSE IF Truthy(parsed) /\ IsObjectLike(parsed) THEN
        IF IsArray(Get(parsed, "data"))
            THEN [found |-> TRUE, arr |-> Get(parsed, "data").v]
        ELSE IF IsArray(Get(parsed, "items"))
            THEN [found |-> TRUE, arr |-> Get(parsed, "items").v]
        ELSE IF IsArray(Get(parsed, "results"))
            THEN [found |-> TRUE, arr |-> Get(parsed, "results").v]
        ELSE [found |-> FALSE, arr |-> <<>>]
    ELSE [found |-> FALSE, arr |-> <<>>]

\* The unwrapping of lines 98-107: the array the items are taken from, or
\* none ("return []").
Unwrap(parsed) ==
    IF IsArray(parsed) THEN [found |-> TRUE, arr |-> parsed.v]
    ELSE IF Truthy(parsed) /\ IsObjectLike(parsed) THEN
        IF IsArray(Get(parsed, "results"))
            THEN [found |-> TRUE, arr |-> Get(parsed, "results").v]
        ELSE IF IsArray(Get(parsed, "items"))
            THEN [found |-> TRUE, arr |-> Get(parsed, "items").v]
        ELSE IF IsArray(Get(parsed, "data"))
            THEN [found |-> TRUE, arr |-> Get(parsed, "data").v]
        ELSE [found |-> FALSE, arr |-> <<>>]
    ELSE [found |-> FALSE, arr |-> <<>>]

\* Variant of AssignIds that spreads the item over the new id, so that an id
\* of the item's own survives.
AssignIds_ItemIdWins(arr, times) ==
    [i \in 1..Len(arr) |->
        IF Get(Spread(arr[i]), "id") # Undefined THEN Spread(arr[i])
        ELSE Put(Spread(arr[i]), "id", Str(ResId(i - 1, times[i])))]

\* Variant of AssignIds that keeps the element whole under a key of the new
\* object instead of spreading it.
AssignIds_KeepsWhole(arr, times) ==
    [i \in 1..Len(arr) |->
        Put(Obj([item |-> arr[i]]), "id", Str(ResId(i - 1, times[i])))]

\* results.map((r, index) => ({...r, id: `res-${index}-${Date.now()}`}));
\* times[i] is the reading of Date.now() for the i-th element.
AssignIds(arr, times) ==
    [i \in 1..Len(arr) |-> Put(Spread(arr[i]), "id", Str(ResId(i - 1, times[i])))]

\* Lines 98-112: what search returns for a parsed response.
normalizeSearch(parsed, times) ==
    LET u == Unwrap(parsed)
    IN  IF u.found THEN AssignIds(u.arr, times) ELSE <<>>

\* getAiClient: throws when process.env.API_KEY is absent.
getAiClient(key) == IF key THEN Return(Str("client")) ELSE Throw(ApiKeyMissingMsg)

\* searchMedicalArticles: resp is how the backend call settles.
searchMedicalArticles(key, resp, times) ==
    IF ~getAiClient(key).ok THEN getAiClient(key)
    ELSE IF resp.k = "rejected" THEN Throw(resp.msg)
    ELSE IF resp.text = <<>> THEN Return(<<>>)
    ELSE LET clean == CleanText(resp.text)
         IN  IF ~Parses(clean) THEN Throw(SyntaxErrorMsg)
             ELSE Return(normalizeSearch(Parsed(clean), times))

\* ------------------------------------------------------------- ContentStage

\* The table's title and header labels are Chinese in the source; the model
\* writes them in Latin letters.
DefaultTable ==
    Obj([title |-> Str("zixun zhengli"),
         headers |-> Arr(<<Str("xiangmu"), Str("neirong"), Str("beizhu")>>),
         rows |-> Arr(<<>>)])
DefaultHeaders == Arr(<<Str("xiangmu"), Str("A"), Str("B")>>)

\* An assignment json.k = v throws on null and undefined, and, in module
\* (strict) code, on a primitive.
CanAssign(x) == x.t \in {"obj"}

\* Variant of RepairPost that looks at headers only when rows was missing.
RepairPost_HeadersWithRows(json) ==
    LET j1 == IF ~Truthy(Get(json, "hashtags"))
              THEN Put(json, "hashtags", Arr(<<>>)) ELSE json
        ct == Get(j1, "comparisonTable")
        c2 == IF ~Truthy(Get(ct, "rows"))
              THEN (IF ~Truthy(Get(ct, "headers"))
                    THEN Put(Put(ct, "rows", Arr(<<>>)), "headers", DefaultHeaders)
                    ELSE Put(ct, "rows", Arr(<<>>)))
              ELSE ct
    IN  IF ~Truthy(ct) THEN Put(j1, "comparisonTable", DefaultTable)
        ELSE Put(j1, "comparisonTable", c2)

\* Lines 185-191 on a parsed value that is an object.
RepairPost(json) ==
    LET j1 == IF ~Truthy(Get(json, "hashtags"))
              THEN Put(json, "hashtags", Arr(<<>>)) ELSE json
        ct == Get(j1, "comparisonTable")
        c1 == IF ~Truthy(Get(ct, "rows")) THEN Put(ct, "rows", Arr(<<>>)) ELSE ct
        c2 == IF ~Truthy(Get(c1, "headers"))
              THEN Put(c1, "headers", DefaultHeaders) ELSE c1
    IN  IF ~Truthy(ct) THEN Put(j1, "comparisonTable", DefaultTable)
        ELSE Put(j1, "comparisonTable", c2)

\* Whether lines 185-191 run without a TypeError.
RepairThrows(json) ==
    \/ ~CanAssign(json)
    \/ LET ct == Get(json, "comparisonTable")
       IN  Truthy(ct) /\ ~CanAssign(ct)
              /\ (~Truthy(Get(ct, "rows")) \/ ~Truthy(Get(ct, "headers")))

generateIgContent(key, resp) ==
    IF ~getAiClient(key).ok THEN getAiClient(key)
    ELSE IF resp.k = "rejected" THEN Throw(resp.msg)
    ELSE IF resp.text = <<>> THEN Throw(NoContentMsg)
    ELSE LET clean == CleanText(resp.text)
         IN  IF ~Parses(clean) THEN Throw(SyntaxErrorMsg)
             ELSE IF RepairThrows(Parsed(clean)) THEN Throw(TypeErrorMsg)
             ELSE Return(RepairPost(Parsed(clean)))

\* -------------------------------------------------------- IllustrationStage

\* A data URL: its media type and its base64 payload.
DataUrl(d) == [mime |-> "image/png", data |-> d]
\* The fixed 1x1 transparent png of line 247.
Placeholder == DataUrl("iVBORw0KGgo_1x1")

\* One entry of response.candidates[0].content.parts.
TextPart == [inline |-> FALSE, data |-> ""]
InlinePart(d) == [inline |-> TRUE, data |-> d]

\* The loop of lines 230-235: the data of the first part with inlineData.
RECURSIVE FirstInline(_)
FirstInline(parts) ==
    IF parts = <<>> THEN ""
    ELSE IF Head(parts).inline THEN Head(parts).data
    ELSE FirstInline(Tail(parts))

\* An image response: cand says what response.candidates holds.
\*   "undefined"  no candidates property
\*   "empty"      candidates = []            (candidates[0].content throws)
\*   "nocontent"  candidates[0] has no content (content.parts throws)
\*   "noparts"    content has no parts
\*   "parts"      content.parts = parts
ImageResolved(cand, parts) ==
    [k |-> "resolved", msg |-> "", cand |-> cand, parts |-> parts]
ImageRejected(m) == [k |-> "rejected", msg |-> m, cand |-> "undefined", parts |-> <<>>]

\* The try block of lines 218-242.
ImageTry(resp) ==
    IF resp.k = "rejected" THEN Throw(resp.msg)
    ELSE IF resp.cand \in {"empty", "nocontent"} THEN Throw(TypeErrorMsg)
    ELSE LET base64Image == IF resp.cand = "parts" THEN FirstInline(resp.parts) ELSE ""
         IN  IF base64Image = "" THEN Throw("No image generated")
             ELSE Return(DataUrl(base64Image))

\* Variant of ImageCatch that passes the failure on.
ImageCatch_Rethrows(failure) == failure

\* The catch block of lines 243-248.
ImageCatch(failure) == Return(Placeholder)

\* getAiClient() is called before the try block (line 201).
generateCuteImage(key, resp) ==
    IF ~getAiClient(key).ok THEN getAiClient(key)
    ELSE LET r == ImageTry(resp)
         IN  IF r.ok THEN r ELSE ImageCatch(r)

\* ------------------------------------------------------- PipelineController

VARIABLES
    results,        \* useState<SearchResult[]>([])
    loadingState,   \* useState<LoadingState>(LoadingState.IDLE)
    error,          \* useState<string | null>(null)
    generatedPost,  \* useState<GeneratedPost | null>(null)
    apiKey,         \* whether process.env.API_KEY is set; the program never writes it
    calls,          \* the handler invocations suspended on a backend call
    nextRun,        \* history: the number the next handler invocation gets
    postRun,        \* history: the invocation that wrote generatedPost (0: none)
    lastEvent,      \* history: the last step taken; for a settled call, how the
                    \* backend call itself went
    fnIn,           \* the argument of a function checked on its own
    fnOut           \* what the function returned for fnIn (NotRun before the call)

ctlVars == <<results, loadingState, error, generatedPost, apiKey, calls, nextRun,
             postRun, lastEvent>>
fnVars == <<fnIn, fnOut>>
vars == <<ctlVars, fnVars>>

NotRun == [t |-> "notrun"]

LoadingStates ==
    {"IDLE", "SEARCHING", "GENERATING_POST", "GENERATING_IMAGE", "COMPLETE", "ERROR"}
Active == {"SEARCHING", "GENERATING_POST", "GENERATING_IMAGE"}

\* The texts the controller puts into error (Chinese in the source).
NoResultsText == "no matching data, widen the dates or change the keyword"
SearchFailedText == "search failed, try again later"
ApiKeyUnsetText == "API Key not set, set GEMINI_API_KEY in the Vercel environment"
GenerateFailedText == "an error occurred while generating content"

\* The controller's four slots as one record.
Slots(r, l, e, g) == [results |-> r, loadingState |-> l, error |-> e, generatedPost |-> g]
Cur == Slots(results, loadingState, error, generatedPost)

Event(op, accepted) == [op |-> op, accepted |-> accepted]

SearchCall(run) ==
    [run |-> run, kind |-> "search", stage |-> "search", item |-> [title |-> Undefined, summary |-> Undefined], content |-> Null]
\* handleGenerate reads result.title and result.summary of its argument.
GenerateCall(run, item) ==
    [run |-> run, kind |-> "generate", stage |-> "content",
     item |-> [title |-> Get(item, "title"), summary |-> Get(item, "summary")],
     content |-> Null]

RemoveAt(s, i) == [j \in 1..(Len(s) - 1) |-> IF j < i THEN s[j] ELSE s[j + 1]]

\* MedicalSearchForm, line 270: the submit button is disabled while isLoading.
isLoading(l) == l # "IDLE" /\ l # "COMPLETE" /\ l # "ERROR"

\* ResultList, line 353: every generate button is disabled while isGenerating.
isGenerating(l) == l = "GENERATING_POST" \/ l = "GENERATING_IMAGE"

\* ResultList, lines 351 and 358-379: the i-th generate button is there when
\* results is not empty and holds an i-th entry, and can be pressed when it is
\* not disabled.
CanGenerate(st, i) ==
    /\ Len(st.results) # 0
    /\ i <= Len(st.results)
    /\ ~isGenerating(st.loadingState)

\* handleSubmit, lines 263-268, behind the button of line 326.
CanSearch(st, datesFilled) == datesFilled /\ ~isLoading(st.loadingState)

\* Variant of SearchStart that leaves the old result list in place.
SearchStart_KeepsResults(st) == Slots(st.results, "SEARCHING", Null, st.generatedPost)

\* handleSearch, lines 762-764: the writes before the await.
SearchStart(st) == Slots(<<>>, "SEARCHING", Null, st.generatedPost)

\* handleSearch, lines 775-776: the text put into error by the catch block.
SearchErrorText(m) ==
    LET errorMessage == IF m # "" THEN m ELSE SearchFailedText
    IN  IF IncludesApiKey(errorMessage) THEN ApiKeyUnsetText ELSE errorMessage

\* Variant of SearchSettled that treats an empty result as a failure.
SearchSettled_EmptyIsError(st, o) ==
    IF o.ok /\ Len(o.val) # 0
    THEN Slots(o.val, "COMPLETE", st.error, st.generatedPost)
    ELSE Slots(st.results, "ERROR", Str(NoResultsText), st.generatedPost)

\* handleSearch, lines 767-778: the continuation after the await, on the
\* outcome o of searchMedicalArticles.
SearchSettled(st, o) ==
    IF o.ok
    THEN Slots(o.val, "COMPLETE",
               IF Len(o.val) = 0 THEN Str(NoResultsText) ELSE st.error,
               st.generatedPost)
    ELSE Slots(st.results, "ERROR", Str(SearchErrorText(o.msg)), st.generatedPost)

\* handleGenerate, lines 782-783: the writes before the first await.
GenerateStart(st) == Slots(st.results, "GENERATING_POST", Null, st.generatedPost)

\* Variant of GenerateFailed that sets no message.
GenerateFailed_NoMessage(st) ==
    Slots(st.results, "ERROR", st.error, st.generatedPost)

\* handleGenerate, lines 803-807: the catch block.
GenerateFailed(st) ==
    Slots(st.results, "ERROR", Str(GenerateFailedText), st.generatedPost)

\* handleGenerate, line 792: the write after the content call returned.
ContentReturned(st) ==
    Slots(st.results, "GENERATING_IMAGE", st.error, st.generatedPost)

\* handleGenerate, lines 797-802: the writes after the image call returned.
ImageReturned(st, content, imageUrl) ==
    Slots(st.results, "COMPLETE", st.error,
          [content |-> content, imageUrl |-> imageUrl])

\* closePreview, line 810.
PreviewClosed(st) == Slots(st.results, st.loadingState, st.error, Null)

\* handleReset, lines 812-817.
ResetDone(st) == Slots(<<>>, "IDLE", Null, Null)

Write(st) ==
    /\ results' = st.results
    /\ loadingState' = st.loadingState
    /\ error' = st.error
    /\ generatedPost' = st.generatedPost

\* ---------------------------------------------- what the backend may answer

ItemA == Obj([title |-> Str("a"), summary |-> Str("sa")])
\* An item that carries an id of its own, of the very form the program makes.
ItemB == Obj([title |-> Str("b"), summary |-> Str("sb"), id |-> Str(ResId(0, 0))])
\* The arrays a search response of the controller model carries.
CtlArrays == {<<>>, <<ItemA>>, <<ItemA, ItemB>>}
LongestCtl == CHOOSE n \in {Len(a) : a \in CtlArrays} : \A a \in CtlArrays : Len(a) <= n

\* Date.now() does not run backwards within one map.
Readings(n) == {ts \in [1..n -> Times] : \A i \in 1..n, j \in 1..n : i <= j => ts[i] <= ts[j]}

SearchResponses ==
    {Rejected(m) : m \in BackendMsgs}
    \cup {Resolved(<<>>), Resolved(<<Junk>>), Resolved(<<Ws>>),
          Resolved(<<Json(Null)>>),
          Resolved(<<Json(Obj([data |-> Arr(<<>>)]))>>),
          Resolved(<<Fence, Json(Obj([results |-> Arr(<<ItemB>>)])), Fence>>)}
    \cup {Resolved(<<Json(Arr(a))>>) : a \in CtlArrays}

FullPost ==
    Obj([headline |-> Str("H"), caption |-> Str("C"),
         hashtags |-> Arr(<<Str("a"), Str("b")>>),
         comparisonTable |->
            Obj([title |-> Str("T"),
                 headers |-> Arr(<<Str("h1"), Str("h2"), Str("h3")>>),
                 rows |-> Arr(<<Obj([aspect |-> Str("x"), value1 |-> Str("y"),
                                     value2 |-> Str("z")])>>)])])
BarePost == Obj([headline |-> Str("H2"), caption |-> Str("C2")])

ContentResponses ==
    {Rejected(m) : m \in BackendMsgs}
    \cup {Resolved(<<>>), Resolved(<<Junk>>), Resolved(<<Json(Null)>>),
          Resolved(<<Fence, Json(FullPost), Fence>>), Resolved(<<Json(BarePost)>>)}

\* The responses that carry zero items: empty text, an empty array, an object
\* wrapping an empty array.
ZeroItemResponses ==
    {Resolved(<<>>), Resolved(<<Json(Arr(<<>>))>>),
     Resolved(<<Json(Obj([data |-> Arr(<<>>)]))>>)}

ImageResponses ==
    {ImageRejected(m) : m \in BackendMsgs}
    \cup {ImageResolved(c, <<>>) : c \in {"undefined", "empty", "nocontent", "noparts", "parts"}}
    \cup {ImageResolved("parts", p) :
            p \in {<<TextPart>>, <<InlinePart("")>>, <<InlinePart("IMG")>>,
                   <<TextPart, InlinePart("IMG")>>}}

\* ------------------------------------------------------------------ actions

\* App as mounted: the initial values of its useState slots.
Mounted ==
    /\ results = <<>>
    /\ loadingState = "IDLE"
    /\ error = Null
    /\ generatedPost = Null
    /\ calls = <<>>
    /\ nextRun = 1
    /\ postRun = 0
    /\ lastEvent = Event("init", TRUE)

Init ==
    /\ Mounted
    /\ apiKey \in BOOLEAN
    /\ fnIn = NotRun
    /\ fnOut = NotRun

\* The user submits the search form.  With the button disabled or a date
\* missing nothing is called; otherwise handleSearch runs to its await.  With
\* no API key searchMedicalArticles throws at once and the catch block runs in
\* the same turn.
ClickSearch ==
    /\ UNCHANGED fnVars
    /\ \E datesFilled \in BOOLEAN :
        IF ~CanSearch(Cur, datesFilled)
        THEN /\ lastEvent' = Event("search", FALSE)
             /\ UNCHANGED <<results, loadingState, error, generatedPost, apiKey,
                            calls, nextRun, postRun>>
        ELSE /\ nextRun <= MaxRuns
             /\ nextRun' = nextRun + 1
             /\ lastEvent' = Event("search", TRUE)
             /\ IF getAiClient(apiKey).ok
                THEN /\ Write(SearchStart(Cur))
                     /\ calls' = Append(calls, SearchCall(nextRun))
                ELSE /\ Write(SearchSettled(SearchStart(Cur),
                                searchMedicalArticles(apiKey, Resolved(<<>>), <<>>)))
                     /\ calls' = calls
             /\ UNCHANGED <<apiKey, postRun>>

\* The backend call of a suspended handleSearch settles.
SettleSearch ==
    /\ UNCHANGED fnVars
    /\ \E i \in 1..Len(calls), resp \in SearchResponses, times \in Readings(LongestCtl) :
        /\ calls[i].kind = "search"
        /\ LET o == searchMedicalArticles(apiKey, resp, times)
           IN  /\ Write(SearchSettled(Cur, o))
               /\ lastEvent' = Event(IF resp \in ZeroItemResponses THEN "searchZero"
                                     ELSE IF o.ok THEN "searchOk" ELSE "searchFailed",
                                     TRUE)
        /\ calls' = RemoveAt(calls, i)
        /\ UNCHANGED <<apiKey, nextRun, postRun>>

\* The user presses the generate button of the i-th result.
ClickGenerate ==
    /\ UNCHANGED fnVars
    /\ \E i \in 1..MaxItems :
        IF ~CanGenerate(Cur, i)
        THEN /\ lastEvent' = Event("generate", FALSE)
             /\ UNCHANGED <<results, loadingState, error, generatedPost, apiKey,
                            calls, nextRun, postRun>>
        ELSE /\ nextRun <= MaxRuns
             /\ nextRun' = nextRun + 1
             /\ lastEvent' = Event("generate", TRUE)
             /\ IF getAiClient(apiKey).ok
                THEN /\ Write(GenerateStart(Cur))
                     /\ calls' = Append(calls, GenerateCall(nextRun, results[i]))
                ELSE /\ Write(GenerateFailed(GenerateStart(Cur)))
                     /\ calls' = calls
             /\ UNCHANGED <<apiKey, postRun>>

\* Variant of AfterContent that goes on to the illustration call whatever
\* the content call did.
AfterContent_AlwaysImage(o) == "image"

\* What handleGenerate does when generateIgContent has settled with o:
\* "image" (go on to the illustration call) or "catch".
AfterContent(o) == IF o.ok THEN "image" ELSE "catch"

\* The content call of a suspended handleGenerate settles.  On success the
\* handler writes GENERATING_IMAGE and calls generateCuteImage, which throws
\* at once without an API key.
SettleContent ==
    /\ UNCHANGED fnVars
    /\ \E i \in 1..Len(calls), resp \in ContentResponses :
        /\ calls[i].stage = "content"
        /\ LET o == generateIgContent(apiKey, resp)
               run == calls[i].run
           IN  IF AfterContent(o) = "image"
               THEN IF getAiClient(apiKey).ok
                    THEN /\ Write(ContentReturned(Cur))
                         /\ calls' = [calls EXCEPT ![i].stage = "image",
                                                   ![i].content = o.val]
                    ELSE /\ Write(GenerateFailed(ContentReturned(Cur)))
                         /\ calls' = RemoveAt(calls, i)
               ELSE /\ Write(GenerateFailed(Cur))
                    /\ calls' = RemoveAt(calls, i)
        /\ lastEvent' = Event(IF generateIgContent(apiKey, resp).ok
                              THEN "contentOk" ELSE "contentFailed", TRUE)
        /\ UNCHANGED <<apiKey, nextRun, postRun>>

\* The illustration call of a suspended handleGenerate settles.
SettleImage ==
    /\ UNCHANGED fnVars
    /\ \E i \in 1..Len(calls), resp \in ImageResponses :
        /\ calls[i].stage = "image"
        /\ LET o == generateCuteImage(apiKey, resp)
               run == calls[i].run
           IN  IF o.ok
               THEN /\ Write(ImageReturned(Cur, calls[i].content, o.val))
                    /\ postRun' = run
               ELSE /\ Write(GenerateFailed(Cur))
                    /\ postRun' = postRun
        /\ lastEvent' = Event(IF ImageTry(resp).ok THEN "imageOk" ELSE "imageFailed", TRUE)
        /\ calls' = RemoveAt(calls, i)
        /\ UNCHANGED <<apiKey, nextRun>>

\* The close button of IgPreview, rendered while generatedPost is set.
ClosePreview ==
    /\ generatedPost # Null
    /\ Write(PreviewClosed(Cur))
    /\ postRun' = 0
    /\ lastEvent' = Event("close", TRUE)
    /\ UNCHANGED <<apiKey, calls, nextRun, fnIn, fnOut>>

\* The header button: always rendered, never disabled.
Reset ==
    /\ Write(ResetDone(Cur))
    /\ postRun' = 0
    /\ lastEvent' = Event("reset", TRUE)
    /\ UNCHANGED <<apiKey, calls, nextRun, fnIn, fnOut>>

Next ==
    \/ ClickSearch
    \/ SettleSearch
    \/ ClickGenerate
    \/ SettleContent
    \/ SettleImage
    \/ ClosePreview
    \/ Reset

Spec == Init /\ [][Next]_vars

\* ------------------------------------------------------------------ claims

\* The stage a handler invocation is suspended in, "none" when it is not.
StageOf(cs, r) ==
    IF \E i \in 1..Len(cs) : cs[i].run = r
    THEN (CHOOSE c \in {cs[i] : i \in 1..Len(cs)} : c.run = r).stage
    ELSE "none"
ContentOf(cs, r) == (CHOOSE c \in {cs[i] : i \in 1..Len(cs)} : c.run = r).content
Runs == 1..(MaxRuns + 1)

\* C1: while loadingState is SEARCHING a generate trigger is ignored: no
\* generate step taken in a state with loadingState = SEARCHING is accepted,
\* and none changes loadingState, error, results or generatedPost.
C1_GenerateIgnoredWhileSearching ==
    [][(loadingState = "SEARCHING" /\ lastEvent'.op = "generate")
        => (/\ ~lastEvent'.accepted
            /\ UNCHANGED <<loadingState, error, results, generatedPost, calls>>)]_vars

\* A generate trigger was tried, and ignored, while a search is outstanding.
C1_Witness ==
    /\ loadingState = "SEARCHING"
    /\ lastEvent = Event("generate", FALSE)
    /\ \E i \in 1..Len(calls) : calls[i].kind = "search"

\* The states a step may take the active state l to.
LegalAfter(l) ==
    IF l = "GENERATING_POST"
    THEN {l, "GENERATING_IMAGE", "COMPLETE", "ERROR"}
    ELSE {l, "COMPLETE", "ERROR"}

\* C2: no step takes an active state (SEARCHING, GENERATING_POST,
\* GENERATING_IMAGE) anywhere but to itself, to the next sub-stage
\* (GENERATING_POST to GENERATING_IMAGE), to COMPLETE or to ERROR; in
\* particular none takes it to IDLE.
C2_ActiveLeavesOnlyToCompleteOrError ==
    [][(loadingState \in Active) => (loadingState' \in LegalAfter(loadingState))]_vars

\* C3: at most one handler invocation is suspended on a backend call.
C3_SinglePipelineInFlight == Len(calls) <= 1

\* C4: within one generate run the sub-stages are sequenced: a run enters the
\* content stage from nowhere else than its trigger, which writes
\* GENERATING_POST; it enters the illustration stage only from the content
\* stage, by the step in which the content call returned successfully, which
\* writes GENERATING_IMAGE; it leaves the illustration stage by writing
\* COMPLETE; and a run whose content call failed leaves by writing ERROR
\* without ever having been in the illustration stage.
C4_SubStagesSequenced ==
    [][\A r \in Runs :
        LET a == StageOf(calls, r)
            b == StageOf(calls', r)
        IN  /\ (b = "content" /\ a # "content")
                => (a = "none" /\ lastEvent' = Event("generate", TRUE)
                    /\ loadingState' = "GENERATING_POST")
            /\ (b = "image" /\ a # "image")
                => (a = "content" /\ lastEvent'.op = "contentOk"
                    /\ loadingState' = "GENERATING_IMAGE")
            /\ (a = "content" /\ lastEvent'.op = "contentFailed" /\ b # "content")
                => (b = "none" /\ loadingState' = "ERROR")
            /\ (a = "content" /\ b = "none")
                => (lastEvent'.op = "contentFailed" /\ loadingState' = "ERROR")
            /\ (a = "image" /\ b # "image")
                => (b = "none" /\ loadingState' = "COMPLETE")]_vars

\* A run went through both sub-stages and ended in COMPLETE.
C4_Witness ==
    /\ lastEvent.op = "imageOk"
    /\ loadingState = "COMPLETE"
    /\ generatedPost # Null
    /\ postRun > 0

C6_ZeroItemsIsComplete ==
    /\ \A resp \in ZeroItemResponses, ts \in Readings(LongestCtl) :
          searchMedicalArticles(TRUE, resp, ts) = Return(<<>>)
    /\ lastEvent.op = "searchZero" => (loadingState = "COMPLETE" /\ results = <<>>)

\* A zero-item response was just settled.
C6_Witness ==
    /\ lastEvent.op = "searchZero"
    /\ loadingState = "COMPLETE"
    /\ results = <<>>
    /\ error = Str(NoResultsText)

\* The inputs on which the search stage and the content stage fail.
SearchFailures ==
    {Rejected(m) : m \in BackendMsgs} \cup {Resolved(<<Junk>>), Resolved(<<Ws>>)}
ContentFailures ==
    {Rejected(m) : m \in BackendMsgs}
        \cup {Resolved(<<>>), Resolved(<<Junk>>), Resolved(<<Json(Null)>>)}

\* C7: every failure of the search stage or of the content stage (missing
\* credential, backend error, unparseable response, empty content response)
\* is raised by the stage and leaves the controller in ERROR with a message;
\* and whenever loadingState is ERROR, error is set.
C7_FailuresEndInErrorWithMessage ==
    /\ \A resp \in SearchResponses, ts \in Readings(LongestCtl) :
          /\ ~searchMedicalArticles(FALSE, resp, ts).ok
          /\ resp \in SearchFailures => ~searchMedicalArticles(TRUE, resp, ts).ok
    /\ \A resp \in ContentResponses :
          /\ ~generateIgContent(FALSE, resp).ok
          /\ resp \in ContentFailures => ~generateIgContent(TRUE, resp).ok
    /\ lastEvent.op \in {"searchFailed", "contentFailed"}
          => (loadingState = "ERROR" /\ Truthy(error))
    /\ (~apiKey /\ lastEvent.accepted /\ lastEvent.op \in {"search", "generate"})
          => (loadingState = "ERROR" /\ Truthy(error))
    /\ loadingState = "ERROR" => error # Null

\* The content stage failed and the controller shows its message.
C7_Witness ==
    /\ lastEvent.op = "contentFailed"
    /\ loadingState = "ERROR"
    /\ error = Str(GenerateFailedText)

\* C8: while a generate run is in its content or illustration stage,
\* generatedPost does not hold the post of an earlier run.
C8_NoStalePostDuringGeneration ==
    \A i \in 1..Len(calls) :
        calls[i].kind = "generate"
            => ~(generatedPost # Null /\ postRun < calls[i].run)

\* ------------------------------------------- the search stage on its own
\* searchMedicalArticles applied once to a response whose text holds one JSON
\* value, bare or inside code fences.

SeqsUpTo(S, n) == UNION {[1..m -> S] : m \in 0..n}

\* Entries of a response array: two objects (one with an id of its own) and null.
NormItems == {ItemA, ItemB, Null}

\* What may sit under one key of a response object.
KeyValues ==
    {Arr(<<>>), Arr(<<ItemA>>), Arr(<<ItemB, ItemA>>), Str("x"), Null}
WrapKeys == {"results", "items", "data"}

\* Objects with any of the keys results, items, data, and possibly another key.
NormObjects ==
    UNION {UNION {{Obj(f), Put(Obj(f), "total", Num(1))} : f \in [ks -> KeyValues]}
            : ks \in SUBSET WrapKeys}

NormParsed ==
    {Arr(a) : a \in SeqsUpTo(NormItems, MaxItems)}
        \cup NormObjects
        \cup {Null, Str("x"), Num(0), Num(1)}

NormInputs ==
    {[parsed |-> p, fenced |-> f, times |-> ts] :
        p \in NormParsed, f \in BOOLEAN, ts \in Readings(MaxItems)}

TextOf(in) ==
    IF in.fenced THEN <<Fence, Ws, Json(in.parsed), Ws, Fence>> ELSE <<Json(in.parsed)>>

SearchFnInit ==
    /\ Mounted
    /\ apiKey = TRUE
    /\ fnIn \in NormInputs
    /\ fnOut = NotRun

SearchFnApply ==
    /\ fnOut = NotRun
    /\ fnOut' = searchMedicalArticles(apiKey, Resolved(TextOf(fnIn)), fnIn.times)
    /\ UNCHANGED <<ctlVars, fnIn>>

SpecSearchFn == SearchFnInit /\ [][SearchFnApply]_vars

\* The array of the claim: the top-level sequence, else the sequence under the
\* first of results, items, data that holds one, else none.
Priority == <<"results", "items", "data">>
Hits(p) ==
    {i \in 1..Len(Priority) :
        p.t = "obj" /\ Priority[i] \in DOMAIN p.v /\ p.v[Priority[i]].t = "arr"}
First(S) == CHOOSE i \in S : \A j \in S : i <= j
SourceArray(p) ==
    IF p.t = "arr" THEN p.v
    ELSE IF Hits(p) # {} THEN p.v[Priority[First(Hits(p))]].v
    ELSE <<>>

\* An object's properties other than id.
SansId(x) == [k \in (DOMAIN x.v) \ {"id"} |-> x.v[k]]
\* The properties an array entry has: none for null.
OwnFields(e) == IF e.t = "obj" THEN e.v ELSE EmptyFields

\* C9: for every parsed value search succeeds and returns one entry per
\* element, in order and with the element's fields, of: the top-level sequence;
\* else the sequence under the first of the keys results, items, data (in that
\* order) that holds a sequence; else, when the value is no object or none of
\* the three keys holds a sequence, of nothing (the empty sequence).
C9_SearchShapeUnwrapping ==
    fnOut # NotRun =>
        LET src == SourceArray(fnIn.parsed)
        IN  /\ fnOut.ok
            /\ Len(fnOut.val) = Len(src)
            /\ \A i \in 1..Len(src) :
                  SansId(fnOut.val[i])
                      = [k \in (DOMAIN OwnFields(src[i])) \ {"id"} |-> src[i].v[k]]

\* An object holding sequences under results and under data (and no sequence
\* under items) was normalised to the entries under results.
C9_Witness ==
    /\ fnOut # NotRun
    /\ fnIn.parsed.t = "obj"
    /\ Hits(fnIn.parsed) = {1, 3}
    /\ Get(fnIn.parsed, "results") = Arr(<<ItemA>>)
    /\ Get(fnIn.parsed, "data") = Arr(<<ItemB, ItemA>>)
    /\ Len(fnOut.val) = 1

\* The responses of C10: a top-level array, or an object with an array under
\* results.
CarriesItems(p) == p.t = "arr" \/ (p.t = "obj" /\ IsArray(Get(p, "results")))
ItemsOf(p) == IF p.t = "arr" THEN p.v ELSE Get(p, "results").v

\* C10: for a response carrying N items (a top-level array, or an array under
\* results) search returns exactly N entries in the same order, any two
\* entries have different ids, and the id of the i-th entry (counted from 0)
\* is the locally made res-i-<Date.now()>, also when the item has an id of
\* its own.
C10_LocalDistinctIds ==
    (fnOut # NotRun /\ CarriesItems(fnIn.parsed)) =>
        LET items == ItemsOf(fnIn.parsed)
            out == fnOut.val
        IN  /\ fnOut.ok
            /\ Len(out) = Len(items)
            /\ \A i \in 1..Len(items) :
                  /\ SansId(out[i]) = [k \in (DOMAIN OwnFields(items[i])) \ {"id"} |->
                                          items[i].v[k]]
                  /\ Get(out[i], "id")
                        = Str([prefix |-> "res", index |-> i - 1, now |-> fnIn.times[i]])
            /\ \A i \in 1..Len(out), j \in 1..Len(out) :
                  i # j => Get(out[i], "id") # Get(out[j], "id")

\* Two items were returned, one of which came with an id of its own that
\* equals the id the program gave the other one.
C10_Witness ==
    /\ fnOut # NotRun
    /\ fnIn.parsed = Arr(<<ItemA, ItemB>>)
    /\ fnIn.times[1] = 0
    /\ Len(fnOut.val) = 2
    /\ Get(ItemB, "id") = Get(fnOut.val[1], "id")

\* ------------------------------------------ the content stage on its own
\* generateIgContent applied once to a response whose text is one JSON object.

Row1 == Obj([aspect |-> Str("x"), value1 |-> Str("y"), value2 |-> Str("z")])

\* A property that is absent, or holds one of vals.
Optional(k, vals) == {EmptyFields} \cup {[j \in {k} |-> v] : v \in vals}

\* The union of two property lists with different keys.
Merge(f, g) == [k \in (DOMAIN f) \cup (DOMAIN g) |-> IF k \in DOMAIN f THEN f[k] ELSE g[k]]

\* What the backend may send as comparisonTable: an object whose title,
\* headers and rows are each absent or present (headers of one or of three
\* labels), null, or a string.
TableInputs ==
    {Obj(Merge(Merge(t, h), r)) :
        t \in Optional("title", {Str("T")}),
        h \in Optional("headers", {Null, Arr(<<Str("h1")>>),
                                   Arr(<<Str("h1"), Str("h2"), Str("h3")>>)}),
        r \in Optional("rows", {Null, Arr(<<>>), Arr(<<Row1>>)})}
      \cup {Null, Str("x")}

PostInputs ==
    {Obj(Merge(Merge(Merge(hl, [caption |-> Str("C")]), ht), ct)) :
        hl \in Optional("headline", {Str("H")}),
        ht \in Optional("hashtags", {Null, Str(""), Arr(<<>>), Arr(<<Str("a"), Str("b")>>)}),
        ct \in Optional("comparisonTable", TableInputs)}

PostFnInit ==
    /\ Mounted
    /\ apiKey = TRUE
    /\ fnIn \in PostInputs
    /\ fnOut = NotRun

PostFnApply ==
    /\ fnOut = NotRun
    /\ fnOut' = generateIgContent(apiKey, Resolved(<<Fence, Json(fnIn), Fence>>))
    /\ UNCHANGED <<ctlVars, fnIn>>

SpecPostFn == PostFnInit /\ [][PostFnApply]_vars

\* A property counts as missing when it is absent or null.
Missing(x) == x.t \in {"undefined", "null"}

\* The properties of x other than those in ks.
Sans(x, ks) == [k \in (DOMAIN x.v) \ ks |-> x.v[k]]

\* The values of the four repairs, as the claim gives them.
C11_DefaultTable ==
    Obj([title |-> Str("zixun zhengli"),
         headers |-> Arr(<<Str("xiangmu"), Str("neirong"), Str("beizhu")>>),
         rows |-> Arr(<<>>)])
C11_DefaultHeaders == Arr(<<Str("xiangmu"), Str("A"), Str("B")>>)

\* The inputs C11 is about: a JSON object whose comparisonTable is missing,
\* falsy or an object.
C11_InScope(json) ==
    json.t = "obj" /\ (Truthy(Get(json, "comparisonTable"))
                          => Get(json, "comparisonTable").t = "obj")

\* The four repairs with `gone` deciding when a property is replaced.
C11_Repaired(in, out, gone(_)) ==
    LET ct == Get(in, "comparisonTable")
        oct == Get(out, "comparisonTable")
    IN  /\ Sans(out, {"hashtags", "comparisonTable"})
              = Sans(in, {"hashtags", "comparisonTable"})
        /\ Get(out, "hashtags")
              = (IF gone(Get(in, "hashtags")) THEN Arr(<<>>) ELSE Get(in, "hashtags"))
        /\ IF gone(ct) THEN oct = C11_DefaultTable
           ELSE /\ oct.t = "obj"
                /\ Sans(oct, {"rows", "headers"}) = Sans(ct, {"rows", "headers"})
                /\ Get(oct, "rows")
                      = (IF gone(Get(ct, "rows")) THEN Arr(<<>>) ELSE Get(ct, "rows"))
                /\ Get(oct, "headers")
                      = (IF gone(Get(ct, "headers")) THEN C11_DefaultHeaders
                         ELSE Get(ct, "headers"))

C11_Falsy(x) == ~Truthy(x)

C13_TableComplete ==
    (fnOut # NotRun /\ fnOut.ok)
        => LET ct == Get(fnOut.val, "comparisonTable")
           IN  /\ ct.t = "obj"
               /\ Get(ct, "title") # Undefined
               /\ Get(ct, "rows") # Undefined
               /\ Get(ct, "headers").t = "arr"
               /\ Len(Get(ct, "headers").v) = 3

\* --------------------------------------------- either stage applied twice
\* The value a stage returned is sent back to it as the text of a second
\* response; the second search reads Date.now() anew.

TwiceInputs ==
    {[shape |-> "search", parsed |-> p, times |-> ts, times2 |-> ts2] :
        p \in NormParsed, ts \in Readings(MaxItems), ts2 \in Readings(MaxItems)}
      \cup {[shape |-> "post", parsed |-> j] : j \in PostInputs}

TwiceInit ==
    /\ Mounted
    /\ apiKey = TRUE
    /\ fnIn \in TwiceInputs
    /\ fnOut = NotRun

SearchTwice ==
    /\ fnOut = NotRun
    /\ fnIn.shape = "search"
    /\ LET once == searchMedicalArticles(apiKey, Resolved(<<Json(fnIn.parsed)>>), fnIn.times)
       IN  fnOut' = [once |-> once,
                     twice |-> IF once.ok
                               THEN searchMedicalArticles(apiKey,
                                        Resolved(<<Json(Arr(once.val))>>), fnIn.times2)
                               ELSE once]
    /\ UNCHANGED <<ctlVars, fnIn>>

PostTwice ==
    /\ fnOut = NotRun
    /\ fnIn.shape = "post"
    /\ LET once == generateIgContent(apiKey, Resolved(<<Json(fnIn.parsed)>>))
       IN  fnOut' = [once |-> once,
                     twice |-> IF once.ok
                               THEN generateIgContent(apiKey, Resolved(<<Json(once.val)>>))
                               ELSE once]
    /\ UNCHANGED <<ctlVars, fnIn>>

TwiceNext == SearchTwice \/ PostTwice

SpecTwice == TwiceInit /\ [][TwiceNext]_vars

\* C12 as stated: for both shapes the second application returns what the
\* first returned, whatever the clock reads at the second.
C12_Idempotent ==
    (fnOut # NotRun /\ fnOut.once.ok) => fnOut.twice = fnOut.once

\* C12 as amended: post-content normalization is idempotent; a second
\* search-shape normalization returns the same number of items in the same
\* order with the same fields other than id, and gives the i-th item the id
\* of the first application exactly when the clock reads for it what it read
\* the first time.
C12_IdempotentButIds ==
    (fnOut # NotRun /\ fnOut.once.ok) =>
        /\ fnOut.twice.ok
        /\ fnIn.shape = "post" => fnOut.twice.val = fnOut.once.val
        /\ fnIn.shape = "search" =>
              /\ Len(fnOut.twice.val) = Len(fnOut.once.val)
              /\ \A i \in 1..Len(fnOut.once.val) :
                    /\ fnOut.twice.val[i].t = "obj"
                    /\ SansId(fnOut.twice.val[i]) = SansId(fnOut.once.val[i])
                    /\ (Get(fnOut.twice.val[i], "id") = Get(fnOut.once.val[i], "id"))
                          <=> (fnIn.times2[i] = fnIn.times[i])

\* Two items were normalized twice at different clock readings.
C12_Witness ==
    /\ fnOut # NotRun
    /\ fnIn.shape = "search"
    /\ fnOut.once.ok
    /\ Len(fnOut.once.val) = 2
    /\ fnIn.times2[1] # fnIn.times[1]
    /\ fnOut.twice.val # fnOut.once.val

\* ----------------------------------------------------- handleCopyCaption
\* A text is a sequence of characters: NL and SP are white space, and every
\* non-empty string of the content counts as one character that is not.

NL == "\n"
SP == " "
IsSpace(c) == c \in {NL, SP}

\* String.prototype.trim
RECURSIVE TrimStart(_)
TrimStart(s) == IF s # <<>> /\ IsSpace(Head(s)) THEN TrimStart(Tail(s)) ELSE s
RECURSIVE TrimEnd(_)
TrimEnd(s) ==
    IF s # <<>> /\ IsSpace(s[Len(s)]) THEN TrimEnd(SubSeq(s, 1, Len(s) - 1)) ELSE s
Trim(s) == TrimEnd(TrimStart(s))

\* ${x} inside a template literal.
Interp(x) ==
    CASE x.t = "str" -> (IF x.v = "" THEN <<>> ELSE <<x.v>>)
      [] x.t = "undefined" -> <<"undefined">>
      [] x.t = "null" -> <<"null">>
      [] OTHER -> <<"[object Object]">>

\* x || d
OrElse(x, d) == IF Truthy(x) THEN x ELSE d

\* x?.k
OptGet(x, k) == IF x.t \in {"undefined", "null"} THEN Undefined ELSE Get(x, k)

\* a[i] for an array a and an index from 0
At(a, i) == IF a.t = "arr" /\ i < Len(a.v) THEN a.v[i + 1] ELSE Undefined

\* parts.join(sep) for a sequence of texts
RECURSIVE Join(_, _)
Join(parts, sep) ==
    IF parts = <<>> THEN <<>>
    ELSE IF Len(parts) = 1 THEN parts[1]
    ELSE parts[1] \o sep \o Join(Tail(parts), sep)

Bar == <<SP, "|", SP>>
ChartMark == "chart"
FallbackHeaders == Arr(<<Str("xiangmu"), Str("neirong A"), Str("neirong B")>>)
FallbackTitle == Str("bijiaobiao")
Indent == <<SP, SP, SP, SP>>

\* Lines 586-590: the table block, or the empty text.
TableText(table, rows, headers) ==
    IF Truthy(table) /\ Len(rows.v) > 0
    THEN Trim(<<NL, ChartMark, SP>> \o Interp(OrElse(Get(table, "title"), FallbackTitle))
              \o <<NL>> \o Interp(OrElse(At(headers, 0), Str("-")))
              \o Bar \o Interp(OrElse(At(headers, 1), Str("-")))
              \o Bar \o Interp(OrElse(At(headers, 2), Str("-")))
              \o <<NL>>
              \o Join([i \in 1..Len(rows.v) |->
                          Interp(Get(rows.v[i], "aspect")) \o Bar
                            \o Interp(Get(rows.v[i], "value1")) \o Bar
                            \o Interp(Get(rows.v[i], "value2"))], <<NL>>)
              \o <<NL>> \o Indent)
    ELSE <<>>

\* hashtags.map(tag => `#${tag}`).join(' ')
TagsText(hashtags) ==
    Join([i \in 1..Len(hashtags.v) |-> <<"#">> \o Interp(hashtags.v[i])], <<SP>>)

\* Variant of CopyText that puts no blank line after an empty table block.
CopyText_NoGapAfterEmptyTable(content) ==
    LET table == Get(content, "comparisonTable")
        rows == OrElse(OptGet(table, "rows"), Arr(<<>>))
        hashtags == OrElse(Get(content, "hashtags"), Arr(<<>>))
        headers == OrElse(OptGet(table, "headers"), FallbackHeaders)
        tableText == TableText(table, rows, headers)
    IN  Trim(<<NL>> \o Interp(OrElse(Get(content, "headline"), Str("")))
             \o <<NL, NL>> \o Interp(OrElse(Get(content, "caption"), Str("")))
             \o <<NL, NL>> \o tableText
             \o (IF tableText = <<>> THEN <<NL>> ELSE <<NL, NL>>) \o TagsText(hashtags)
             \o <<NL>> \o Indent)

\* Lines 579-599: textToCopy for the content shown.
CopyText(content) ==
    LET table == Get(content, "comparisonTable")
        rows == OrElse(OptGet(table, "rows"), Arr(<<>>))
        hashtags == OrElse(Get(content, "hashtags"), Arr(<<>>))
        headers == OrElse(OptGet(table, "headers"), FallbackHeaders)
        tableText == TableText(table, rows, headers)
    IN  Trim(<<NL>> \o Interp(OrElse(Get(content, "headline"), Str("")))
             \o <<NL, NL>> \o Interp(OrElse(Get(content, "caption"), Str("")))
             \o <<NL, NL>> \o tableText
             \o <<NL, NL>> \o TagsText(hashtags)
             \o <<NL>> \o Indent)

\* The contents the preview may show: what generateIgContent returns, with
\* or without its caption.
CopyInputs ==
    LET outs == {generateIgContent(TRUE, Resolved(<<Json(j)>>)) : j \in PostInputs}
        vals == {o.val : o \in {x \in outs : x.ok}}
    IN  vals \cup {Obj(Sans(c, {"caption"})) : c \in vals}

CopyInit ==
    /\ Mounted
    /\ apiKey = TRUE
    /\ fnIn \in CopyInputs
    /\ fnOut = NotRun

handleCopyCaption ==
    /\ fnOut = NotRun
    /\ fnOut' = [text |-> CopyText(fnIn)]
    /\ UNCHANGED <<ctlVars, fnIn>>

SpecCopy == CopyInit /\ [][handleCopyCaption]_vars

\* The content of the claim's example: headline H, caption C, hashtags a and
\* b, a table without rows.
C14_Example ==
    /\ Get(fnIn, "headline") = Str("H")
    /\ Get(fnIn, "caption") = Str("C")
    /\ Get(fnIn, "hashtags") = Arr(<<Str("a"), Str("b")>>)
    /\ Get(Get(fnIn, "comparisonTable"), "rows") = Arr(<<>>)

\* C14 as stated: for the example the copied text has three line breaks
\* between C and #a.
C14_ThreeBreaks ==
    (fnOut # NotRun /\ C14_Example)
        => fnOut.text = <<"H", NL, NL, "C", NL, NL, NL, "#", "a", SP, "#", "b">>

\* C14 as amended: the copied text is headline, blank line, caption, blank
\* line, table text, blank line, space-joined #hashtag tokens, trimmed; a
\* table without rows contributes the empty text but keeps both blank lines
\* around it, so for the example the text is "H\n\nC\n\n\n\n#a #b" (four line
\* breaks between C and #a); a table with rows is a title line, a header
\* line and one line per row.
C14_CopyTextLayout ==
    fnOut # NotRun =>
        /\ C14_Example
              => fnOut.text = <<"H", NL, NL, "C", NL, NL, NL, NL, "#", "a", SP, "#", "b">>
        /\ (Get(Get(fnIn, "comparisonTable"), "rows") = Arr(<<>>))
              => \A i \in 1..Len(fnOut.text) : fnOut.text[i] \notin {"|", ChartMark}
        /\ ( /\ Get(fnIn, "headline") = Str("H")
             /\ Get(fnIn, "caption") = Str("C")
             /\ Get(fnIn, "hashtags") = Arr(<<Str("a"), Str("b")>>)
             /\ Get(fnIn, "comparisonTable")
                   = Obj([title |-> Str("T"), rows |-> Arr(<<Row1>>),
                          headers |-> Arr(<<Str("h1"), Str("h2"), Str("h3")>>)]) )
              => fnOut.text = <<"H", NL, NL, "C", NL, NL,
                           "chart", SP, "T", NL,
                           "h1", SP, "|", SP, "h2", SP, "|", SP, "h3", NL,
                           "x", SP, "|", SP, "y", SP, "|", SP, "z",
                           NL, NL, "#", "a", SP, "#", "b">>

\* The example content was copied.
C14_Witness ==
    /\ fnOut # NotRun
    /\ C14_Example
    /\ Len(fnOut.text) = 13

\* ---------------------------------------------------- generateTableImage
\* The rows of the table image: where each row's divider and text are drawn.

size == 1080
startY == 200
FooterMargin == 100
FirstRowOffset == 120
RowStep == 140
DividerRise == 40

\* A table of n rows.
TableOf(n) == Obj([title |-> Str("T"),
                   headers |-> Arr(<<Str("h1"), Str("h2"), Str("h3")>>),
                   rows |-> Arr([i \in 1..n |-> Row1])])

TableImageInputs ==
    {[content |-> Obj([headline |-> Str("H"), comparisonTable |-> TableOf(n)]),
      ctx |-> c] : n \in 0..MaxRows, c \in BOOLEAN}

\* Lines 438-545.  Without a 2d context nothing is drawn.  rowHeight is the
\* quotient of line 466, kept as numerator and denominator; yPos[i] is the
\* text baseline of row i - 1 and divider[i] the height of the line above it.
generateTableImage(content, ctx) ==
    LET table == Get(content, "comparisonTable")
        rows == OrElse(OptGet(table, "rows"), Arr(<<>>))
        n == Len(rows.v)
        yPos == [i \in 1..n |-> startY + FirstRowOffset + ((i - 1) * RowStep)]
    IN  IF ~ctx THEN [drawn |-> FALSE, rowHeight |-> <<0, 1>>, yPos |-> <<>>, divider |-> <<>>]
        ELSE [drawn |-> TRUE,
              rowHeight |-> <<size - startY - FooterMargin, n + 1>>,
              yPos |-> yPos,
              divider |-> [i \in 1..n |-> yPos[i] - DividerRise]]

TableImageInit ==
    /\ Mounted
    /\ apiKey = TRUE
    /\ fnIn \in TableImageInputs
    /\ fnOut = NotRun

TableImageApply ==
    /\ fnOut = NotRun
    /\ fnOut' = generateTableImage(fnIn.content, fnIn.ctx)
    /\ UNCHANGED <<ctlVars, fnIn>>

SpecTableImage == TableImageInit /\ [][TableImageApply]_vars

C15_RowCounts == {0, 1, 10, 50}

\* C15: for a table of R rows, R in {0, 1, 10, 50}, row i is drawn i slots of
\* (1080 - headerAreaHeight - footerMargin) / (R + 1) below the first (up to
\* rounding by one unit), and no row is drawn below the canvas.
C15_RowsFillHeight ==
    (fnOut # NotRun /\ fnOut.drawn /\ Len(fnOut.yPos) \in C15_RowCounts) =>
        \A i \in 1..Len(fnOut.yPos) :
            LET off == fnOut.yPos[i] - fnOut.yPos[1]
                num == fnOut.rowHeight[1]
                den == fnOut.rowHeight[2]
            IN  /\ (off - 1) * den <= (i - 1) * num
                /\ (i - 1) * num <= (off + 1) * den
                /\ fnOut.yPos[i] <= 1080

\* --------------------------------------------------------------- wrapText
\* A character of a cell is its position in the string and the width the
\* canvas measures for it; a line measures the sum of its characters.

lineHeight == 40

RECURSIVE measureText(_)
measureText(line) == IF line = <<>> THEN 0 ELSE Head(line).w + measureText(Tail(line))

\* Variant of WrapLoop that starts the next line empty after a flush.
RECURSIVE WrapLoop_DropsChar(_, _, _, _, _, _)
WrapLoop_DropsChar(words, n, line, currentY, drawn, maxWidth) ==
    IF n >= Len(words) THEN Append(drawn, [line |-> line, y |-> currentY])
    ELSE LET testLine == Append(line, words[n + 1])
         IN  IF measureText(testLine) > maxWidth /\ n > 0
             THEN WrapLoop_DropsChar(words, n + 1, <<>>, currentY + lineHeight,
                                     Append(drawn, [line |-> line, y |-> currentY]), maxWidth)
             ELSE WrapLoop_DropsChar(words, n + 1, testLine, currentY, drawn, maxWidth)

\* Lines 476-488: the loop from index n on, and the fillText after it; drawn
\* is what fillText has been called with so far.
RECURSIVE WrapLoop(_, _, _, _, _, _)
WrapLoop(words, n, line, currentY, drawn, maxWidth) ==
    IF n >= Len(words) THEN Append(drawn, [line |-> line, y |-> currentY])
    ELSE LET testLine == Append(line, words[n + 1])
         IN  IF measureText(testLine) > maxWidth /\ n > 0
             THEN WrapLoop(words, n + 1, <<words[n + 1]>>, currentY + lineHeight,
                           Append(drawn, [line |-> line, y |-> currentY]), maxWidth)
             ELSE WrapLoop(words, n + 1, testLine, currentY, drawn, maxWidth)

\* wrapText(text, x, y, maxWidth, lineHeight): the fillText calls it makes.
wrapText(text, y, maxWidth) == WrapLoop(text, 0, <<>>, y, <<>>, maxWidth)

\* Usable widths of a column, the narrower one below the widest character.
WrapWidths == (MaxCharWidth - 1)..MaxCharWidth

WrapInputs ==
    {[text |-> [i \in 1..Len(ws) |-> [c |-> i, w |-> ws[i]]], maxWidth |-> m] :
        ws \in SeqsUpTo(1..MaxCharWidth, MaxChars), m \in WrapWidths}

WrapInit ==
    /\ Mounted
    /\ apiKey = TRUE
    /\ fnIn \in WrapInputs
    /\ fnOut = NotRun

WrapApply ==
    /\ fnOut = NotRun
    /\ fnOut' = [lines |-> wrapText(fnIn.text, 0, fnIn.maxWidth)]
    /\ UNCHANGED <<ctlVars, fnIn>>

SpecWrap == WrapInit /\ [][WrapApply]_vars

\* The drawn lines one after another.
RECURSIVE C16_Concat(_)
C16_Concat(ls) == IF ls = <<>> THEN <<>> ELSE Head(ls).line \o C16_Concat(Tail(ls))

\* The measured width of a line, summed over its characters.
C16_Width(line) ==
    LET RECURSIVE Sum(_)
        Sum(k) == IF k = 0 THEN 0 ELSE line[k].w + Sum(k - 1)
    IN  Sum(Len(line))

\* C16 as stated: whatever positive widths the characters have, no drawn
\* line is wider than maxWidth and the drawn lines concatenate to the string.
C16_LinesFit ==
    fnOut # NotRun =>
        /\ \A i \in 1..Len(fnOut.lines) : C16_Width(fnOut.lines[i].line) <= fnIn.maxWidth
        /\ C16_Concat(fnOut.lines) = fnIn.text

\* C16 as amended: the drawn lines concatenate to the string whatever the
\* widths; a drawn line is wider than maxWidth only when it is a single
\* character that alone is wider than maxWidth, so when no character is
\* wider than maxWidth no drawn line is.
C16_LinesFitUnlessOneWideChar ==
    fnOut # NotRun =>
        /\ C16_Concat(fnOut.lines) = fnIn.text
        /\ \A i \in 1..Len(fnOut.lines) :
              \/ C16_Width(fnOut.lines[i].line) <= fnIn.maxWidth
              \/ Len(fnOut.lines[i].line) = 1
        /\ (\A k \in 1..Len(fnIn.text) : fnIn.text[k].w <= fnIn.maxWidth)
              => \A i \in 1..Len(fnOut.lines) :
                    C16_Width(fnOut.lines[i].line) <= fnIn.maxWidth

\* A string whose characters all fit was wrapped onto more than one line.
C16_Witness ==
    /\ fnOut # NotRun
    /\ \A k \in 1..Len(fnIn.text) : fnIn.text[k].w <= fnIn.maxWidth
    /\ Len(fnIn.text) = MaxChars
    /\ Len(fnOut.lines) >= 2

\* ------------------------------------------------------------ termination
\* Every backend call that is outstanding settles in the end: the promise of
\* a suspended handler resolves or rejects, and the handler then runs on.
SpecFair ==
    /\ Spec
    /\ WF_vars(SettleSearch)
    /\ WF_vars(SettleContent)
    /\ WF_vars(SettleImage)

Settled == {"COMPLETE", "ERROR"}

\* First half of C17: every active state is followed by COMPLETE or ERROR.
C17_EventuallySettled ==
    (loadingState \in Active) ~> (loadingState \in Settled)

\* C17, second half: once in COMPLETE or ERROR the controller enters an
\* active state only by a search or generate trigger that was accepted;
\* nothing else takes it back into SEARCHING, GENERATING_POST or
\* GENERATING_IMAGE.
C17_SettledStaysUntilTrigger ==
    [][(loadingState \in Settled /\ loadingState' \in Active)
          => (lastEvent'.op \in {"search", "generate"} /\ lastEvent'.accepted)]_vars

====
